---------------------------- MODULE Spec2Model ----------------------------
(***************************************************************************)
(* AgentPay protocol: the client SDK (src/skill/agentpay_client.py) and    *)
(* the multi-chain bridge skill (src/skill/bridge_skill.py).               *)
(*                                                                         *)
(* The specifications of this module:                                      *)
(*   SpecFee      AgentPayClient._calculate_fee as a pure function         *)
(*   Spec         the client's escrow operations and execute_full_flow     *)
(*   SpecBridge   MultiChainBridgeSkill's transaction history and tracking *)
(*   SpecGather   bridge_usdc calls run together by the event loop         *)
(*   SpecHistory  every operation on bridge_history, the clock standing    *)
(*   SpecRecent   dispatches and get_bridge_history as time passes         *)
(*   SpecQueries  the route and cost queries as pure functions             *)
(*   SpecBalances check_balance and check_all_balances                     *)
(*                                                                         *)
(* Money is a Python float in the source.  The model keeps it exact: an    *)
(* amount is a whole number of USDC and a fee is a whole number of         *)
(* 1/FeeScale USDC, FeeScale being the common denominator of every factor  *)
(* _calculate_fee multiplies by.                                           *)
(***************************************************************************)
EXTENDS Integers, Sequences, FiniteSets, TLC

VARIABLES
    fee_args,       \* SpecFee: the arguments of one _calculate_fee call
    fee_result,     \* SpecFee: what the call returned, <<>> before it returns
    wall,           \* time.time() in milliseconds
    returned,       \* the records the client returned to its callers, in order
    calls,          \* the calls of the client's operations, by call slot
    loop_time,      \* asyncio event loop time, in seconds
    bridge_history, \* MultiChainBridgeSkill.bridge_history
    tracked,        \* the last dict track_bridge_status returned
    tracked_before, \* the dict track_bridge_status returned before that one
    pending,        \* the bridge_usdc calls gathered and not yet run
    dispatched,     \* the dicts bridge_usdc returned, in order
    chains,         \* the keys of MultiChainBridgeSkill.chains
    query,          \* the arguments of the route and cost queries
    reply           \* what the skill's last query returned or raised

vars == <<fee_args, fee_result, wall, returned, calls,
          loop_time, bridge_history, tracked, tracked_before,
          pending, dispatched, chains, query, reply>>

feeVars == <<fee_args, fee_result>>
escrowVars == <<wall, returned, calls>>
bridgeVars == <<loop_time, bridge_history, tracked, tracked_before,
                pending, dispatched>>
queryVars == <<chains, query, reply>>

\* Python's None
None == "None"

(***************************************************************************)
(* Chains (bridge_skill.py, class Chain)                                   *)
(***************************************************************************)
ARBITRUM_SEPOLIA == "arbitrum-sepolia"
BASE_SEPOLIA == "base-sepolia"
OPTIMISM_SEPOLIA == "optimism-sepolia"
POLYGON_AMOY == "polygon-amoy"

Chain == {ARBITRUM_SEPOLIA, BASE_SEPOLIA, OPTIMISM_SEPOLIA, POLYGON_AMOY}

(***************************************************************************)
(* Fee engine: AgentPayClient._calculate_fee                               *)
(***************************************************************************)

\* Fees are counted in 1/FeeScale USDC: 100 (the 1% base) * 4 (complexity
\* multipliers in quarters) * 10 (volume discounts in tenths) * 20
\* (reputation discounts in twentieths).
FeeScale == 100 * 4 * 10 * 20

\* complexity_multipliers.get(complexity, 1.0), in quarters:
\* {0: 0.75, 1: 1.0, 2: 1.5}, any other key 1.0
ComplexityMultipliersSwapped(complexity) ==
    CASE complexity = 0 -> 6
      [] complexity = 1 -> 4
      [] complexity = 2 -> 3
      [] OTHER -> 4
complexity_multipliers(complexity) ==
    CASE complexity = 0 -> 3
      [] complexity = 1 -> 4
      [] complexity = 2 -> 6
      [] OTHER -> 4

\* the volume discount, in tenths
VolumeDiscountFrom100(amount) ==
    IF amount >= 50000 THEN 7
    ELSE IF amount >= 10000 THEN 8
    ELSE IF amount >= 100 THEN 9
    ELSE 10
volume_discount(amount) ==
    IF amount >= 50000 THEN 7
    ELSE IF amount >= 10000 THEN 8
    ELSE IF amount >= 1000 THEN 9
    ELSE 10

\* the reputation discount, in twentieths
reputation_discount(worker_reputation) ==
    IF worker_reputation >= 800 THEN 18
    ELSE IF worker_reputation >= 500 THEN 19
    ELSE 20

\* amount * 0.005 and amount * 0.03, in 1/FeeScale
min_fee(amount) == amount * (FeeScale \div 200)
max_fee(amount) == amount * ((3 * FeeScale) \div 100)

Max2(a, b) == IF a >= b THEN a ELSE b
Min2(a, b) == IF a <= b THEN a ELSE b

\* "fee = max(min_fee, min(fee, max_fee))"
ClampUnclamped(fee, amount) == fee
Clamp(fee, amount) == Max2(min_fee(amount), Min2(fee, max_fee(amount)))

\* the fee before the clamp: base 1%, times the three factors, plus the
\* cross-chain 0.5%
raw_fee(amount, complexity, worker_reputation, is_cross_chain) ==
    amount * complexity_multipliers(complexity) * volume_discount(amount)
           * reputation_discount(worker_reputation)
    + (IF is_cross_chain THEN amount * (FeeScale \div 200) ELSE 0)

calculate_fee(amount, complexity, worker_reputation, is_cross_chain) ==
    Clamp(raw_fee(amount, complexity, worker_reputation, is_cross_chain), amount)

\* The arguments tried: amounts around every volume tier, a zero and a
\* negative amount (the function does not validate), the three complexity
\* levels and an unknown one, reputations around both tiers.
FeeAmounts == {-100, 0, 1, 100, 999, 1000, 9999, 10000, 49999, 50000, 60000}
FeeComplexities == {0, 1, 2, 3}
FeeReputations == {0, 499, 500, 750, 799, 800, 1000}

(***************************************************************************)
(* Route selector: MultiChainBridgeSkill.find_optimal_route                *)
(* Costs are counted in 1/1000 USD.                                        *)
(***************************************************************************)
FastRouteSeconds == 600
SlowRouteSeconds == 900

find_optimal_route(from_chain, to_chain, amount) ==
    [from_chain |-> from_chain,
     to_chain |-> to_chain,
     estimated_time_seconds |->
        IF from_chain = BASE_SEPOLIA \/ to_chain = BASE_SEPOLIA
        THEN FastRouteSeconds ELSE SlowRouteSeconds,
     estimated_gas_cost_usd |-> 500,
     bridge_fee_usd |-> amount,
     total_cost_usd |-> 500 + amount,
     reliability_score |-> 95]

(***************************************************************************)
(* The client: AgentPayClient                                              *)
(*                                                                         *)
(* The client keeps no escrow store: every operation builds a dict and     *)
(* returns it.  `returned` is the sequence of those dicts in the order     *)
(* they were returned; it is what a caller knows of an escrow.             *)
(*                                                                         *)
(* The operations are coroutines on one event loop.  A step of the model   *)
(* is the code a coroutine runs between two awaits that suspend it         *)
(* (asyncio.sleep); `await self._get_worker_reputation(...)` and the       *)
(* awaits of create_escrow and submit_work never suspend.  A pc is the     *)
(* line of the await the coroutine is suspended at.  time.time() is the    *)
(* system clock, which the sleeps do not constrain in the model: a         *)
(* sleeping coroutine resumes at any later step.                           *)
(***************************************************************************)

\* self.current_chain, the constructor's default
current_chain == ARBITRUM_SEPOLIA

\* _generate_escrow_id: int(time.time() * 1000) % 1000000
IdModulus == 1000000
generate_escrow_id(w) == w % IdModulus

\* int(time.time())
timestamp(w) == w \div 1000

\* _get_worker_reputation
get_worker_reputation == 750

\* The clock readings tried, from the client's construction on: the same
\* millisecond, the next one, and IdModulus milliseconds later.
WallReadings == {0, 1, IdModulus}

\* At most MaxCalls calls of the client's operations are made, each in a
\* call slot of its own.
MaxCalls == 2
CallSlots == 1..MaxCalls

\* The arguments tried.
EscrowAmounts == {0, 100}
WorkerChains == {None, ARBITRUM_SEPOLIA, BASE_SEPOLIA}
\* escrow ids a caller passes: those it was given, and one it never was
UnknownEscrowId == IdModulus - 1
KnownEscrowIds == {returned[i].escrow_id : i \in 1..Len(returned)}
EscrowIdArgs == KnownEscrowIds \cup {UnknownEscrowId}

\* is_cross_chain = worker_chain and worker_chain != self.current_chain
IsCrossChainWhenGiven(worker_chain) == worker_chain # None
is_cross_chain(worker_chain) ==
    worker_chain # None /\ worker_chain # current_chain

\* _prepare_bridge
prepare_bridge(from_chain, to_chain, amount) ==
    [from_chain |-> from_chain,
     to_chain |-> to_chain,
     amount |-> amount,
     estimated_time_minutes |->
        find_optimal_route(from_chain, to_chain, amount).estimated_time_seconds \div 60,
     bridge_cost |-> find_optimal_route(from_chain, to_chain, amount).total_cost_usd,
     route |-> find_optimal_route(from_chain, to_chain, amount)]

\* create_escrow raises ZeroDivisionError at the print of fee/amount
create_escrow_raises(amount) == amount = 0

\* the dict create_escrow returns
create_escrow(amount, complexity, worker_chain, w) ==
    [kind |-> "escrow",
     escrow_id |-> generate_escrow_id(w),
     status |-> "created",
     amount |-> amount,
     fee |-> calculate_fee(amount, complexity, get_worker_reputation,
                           is_cross_chain(worker_chain)),
     is_cross_chain |-> is_cross_chain(worker_chain),
     worker_chain |-> IF worker_chain # None THEN worker_chain ELSE current_chain,
     bridge_info |-> IF is_cross_chain(worker_chain)
                     THEN <<prepare_bridge(current_chain, worker_chain, amount)>>
                     ELSE <<>>,
     timestamp |-> timestamp(w)]

\* the dict submit_work returns
submit_work(escrow_id, w) ==
    [kind |-> "submission",
     escrow_id |-> escrow_id,
     status |-> "submitted",
     timestamp |-> timestamp(w)]

\* The verdict verify_work_with_ai reports.  The source stands in for the
\* verifier with "passed = True" and branches on `passed` afterwards (in
\* verify_work_with_ai and in execute_full_flow); the model lets the
\* verifier give either verdict.
VerifierVerdicts == BOOLEAN

\* the dict verify_work_with_ai returns
verify_work_with_ai(escrow_id, passed, w) ==
    [kind |-> "verification",
     escrow_id |-> escrow_id,
     passed |-> passed,
     timestamp |-> timestamp(w)]

\* flow_results["payment"], with the escrow it is filed under
payment(escrow, w) ==
    [kind |-> "payment",
     escrow_id |-> escrow.escrow_id,
     worker_payment |-> escrow.amount,
     protocol_fee |-> escrow.fee,
     status |-> "released",
     timestamp |-> timestamp(w)]

\* "if verification["passed"]:" in execute_full_flow
ReleaseAlways(verification) == TRUE
ReleaseOnFail(verification) == ~verification.passed
ShouldRelease(verification) == verification.passed

\* flow_results of execute_full_flow, a key being a sequence of length 0
\* until it is set; status is the "Status:" line of the summary
NoResults == [escrow |-> <<>>, submission |-> <<>>, verification |-> <<>>,
              payment |-> <<>>, status |-> None]

IdleCall == [op |-> "idle", pc |-> "idle", escrow_id |-> 0,
             flow_results |-> NoResults]

EscrowInit ==
    /\ wall = 0
    /\ returned = <<>>
    /\ calls = [c \in CallSlots |-> IdleCall]

\* the next free slot: slots are taken in order
FreeCall(c) ==
    /\ calls[c].op = "idle"
    /\ \A d \in CallSlots : d < c => calls[d].op # "idle"

At(c, op, pc) == calls[c].op = op /\ calls[c].pc = pc

WallTick ==
    /\ \E w \in WallReadings : w > wall /\ wall' = w
    /\ UNCHANGED <<returned, calls, feeVars, bridgeVars, queryVars>>

\* a stand-alone create_escrow call
CreateEscrow(c) ==
    /\ FreeCall(c)
    /\ \E amount \in EscrowAmounts, worker_chain \in WorkerChains :
         IF create_escrow_raises(amount)
         THEN /\ calls' = [calls EXCEPT ![c].op = "create_escrow",
                                        ![c].pc = "ZeroDivisionError"]
              /\ UNCHANGED returned
         ELSE /\ calls' = [calls EXCEPT ![c].op = "create_escrow",
                                        ![c].pc = "done",
                                        ![c].escrow_id = generate_escrow_id(wall)]
              /\ returned' = Append(returned,
                                    create_escrow(amount, 1, worker_chain, wall))
    /\ UNCHANGED <<wall, feeVars, bridgeVars, queryVars>>

\* a stand-alone submit_work call
SubmitWork(c) ==
    /\ FreeCall(c)
    /\ \E escrow_id \in EscrowIdArgs :
         /\ calls' = [calls EXCEPT ![c].op = "submit_work",
                                   ![c].pc = "done",
                                   ![c].escrow_id = escrow_id]
         /\ returned' = Append(returned, submit_work(escrow_id, wall))
    /\ UNCHANGED <<wall, feeVars, bridgeVars, queryVars>>

\* a stand-alone verify_work_with_ai call, up to "await asyncio.sleep(2)"
VerifyBegin(c) ==
    /\ FreeCall(c)
    /\ \E escrow_id \in EscrowIdArgs :
         calls' = [calls EXCEPT ![c].op = "verify_work_with_ai",
                                ![c].pc = "l351",
                                ![c].escrow_id = escrow_id]
    /\ UNCHANGED <<wall, returned, feeVars, bridgeVars, queryVars>>

\* ... and from the sleep to its return
VerifyEnd(c) ==
    /\ At(c, "verify_work_with_ai", "l351")
    /\ \E passed \in VerifierVerdicts :
         returned' = Append(returned,
                            verify_work_with_ai(calls[c].escrow_id, passed, wall))
    /\ calls' = [calls EXCEPT ![c].pc = "done"]
    /\ UNCHANGED <<wall, feeVars, bridgeVars, queryVars>>

\* execute_full_flow, step 1, up to the first "await asyncio.sleep(1)"
FlowCreate(c) ==
    /\ FreeCall(c)
    /\ \E amount \in EscrowAmounts :
         IF create_escrow_raises(amount)
         THEN /\ calls' = [calls EXCEPT ![c].op = "execute_full_flow",
                                        ![c].pc = "ZeroDivisionError"]
              /\ UNCHANGED returned
         ELSE /\ calls' = [calls EXCEPT
                    ![c].op = "execute_full_flow",
                    ![c].pc = "l440",
                    ![c].escrow_id = generate_escrow_id(wall),
                    ![c].flow_results.escrow =
                        <<create_escrow(amount, 1, None, wall)>>]
              /\ returned' = Append(returned, create_escrow(amount, 1, None, wall))
    /\ UNCHANGED <<wall, feeVars, bridgeVars, queryVars>>

\* step 2, up to the second sleep
FlowSubmit(c) ==
    /\ At(c, "execute_full_flow", "l440")
    /\ calls' = [calls EXCEPT
          ![c].pc = "l448",
          ![c].flow_results.submission = <<submit_work(calls[c].escrow_id, wall)>>]
    /\ returned' = Append(returned, submit_work(calls[c].escrow_id, wall))
    /\ UNCHANGED <<wall, feeVars, bridgeVars, queryVars>>

\* step 3 enters verify_work_with_ai, up to its sleep
FlowVerifyBegin(c) ==
    /\ At(c, "execute_full_flow", "l448")
    /\ calls' = [calls EXCEPT ![c].pc = "l351"]
    /\ UNCHANGED <<wall, returned, feeVars, bridgeVars, queryVars>>

\* the "Status:" line the flow prints before it returns
summary_status(verification) ==
    IF verification.passed THEN "COMPLETE" ELSE "FAILED"

\* verify_work_with_ai returns; step 4 sleeps before it releases, or the
\* flow prints its summary and returns
FlowVerifyEnd(c) ==
    /\ At(c, "execute_full_flow", "l351")
    /\ \E passed \in VerifierVerdicts :
         LET verification == verify_work_with_ai(calls[c].escrow_id, passed, wall)
         IN  /\ returned' = Append(returned, verification)
             /\ calls' = [calls EXCEPT
                   ![c].flow_results.verification = <<verification>>,
                   ![c].flow_results.status =
                        IF ShouldRelease(verification) THEN None
                        ELSE summary_status(verification),
                   ![c].pc = IF ShouldRelease(verification) THEN "l458"
                             ELSE "done"]
    /\ UNCHANGED <<wall, feeVars, bridgeVars, queryVars>>

\* step 4 releases, and the flow prints its summary and returns
FlowRelease(c) ==
    /\ At(c, "execute_full_flow", "l458")
    /\ calls' = [calls EXCEPT
          ![c].pc = "done",
          ![c].flow_results.payment =
               <<payment(calls[c].flow_results.escrow[1], wall)>>,
          ![c].flow_results.status =
               summary_status(calls[c].flow_results.verification[1])]
    /\ returned' = Append(returned, payment(calls[c].flow_results.escrow[1], wall))
    /\ UNCHANGED <<wall, feeVars, bridgeVars, queryVars>>

(***************************************************************************)
(* Bridge tracker: MultiChainBridgeSkill.bridge_history                    *)
(*                                                                         *)
(* loop_time is asyncio.get_event_loop().time(), a monotonic clock, in     *)
(* whole seconds.  bridge_usdc and track_bridge_status await nothing, so   *)
(* each runs in one step.                                                  *)
(***************************************************************************)

\* At most MaxHistory transactions are dispatched.
MaxHistory == 2

\* The clock readings tried.
LoopReadings == {0, 1, 300, FastRouteSeconds, FastRouteSeconds + 1,
                 SlowRouteSeconds, FastRouteSeconds + SlowRouteSeconds}

\* The arguments tried: routes with and without the fast chain, and one
\* from a chain to itself.
BridgePairs == {<<ARBITRUM_SEPOLIA, BASE_SEPOLIA>>,
                <<ARBITRUM_SEPOLIA, OPTIMISM_SEPOLIA>>,
                <<POLYGON_AMOY, POLYGON_AMOY>>}
BridgeAmounts == {100}

\* _generate_mock_tx_hash: the SHA-256 of "from-to-amount-time", modelled
\* as the tuple of what is hashed (two hashes are equal exactly when what
\* was hashed is)
generate_mock_tx_hash(from_chain, to_chain, amount, t) ==
    <<from_chain, to_chain, amount, t>>

\* a hash no dispatch returns
UnknownTxHash == <<None, None, 0, 0>>

\* the BridgeTransaction bridge_usdc builds at loop time t
bridge_usdc(from_chain, to_chain, amount, t) ==
    [tx_hash |-> generate_mock_tx_hash(from_chain, to_chain, amount, t),
     from_chain |-> from_chain,
     to_chain |-> to_chain,
     amount |-> amount,
     status |-> "pending",
     timestamp |-> t,
     estimated_arrival |->
        t + find_optimal_route(from_chain, to_chain, amount).estimated_time_seconds]

\* next((t for t in self.bridge_history if t.tx_hash == tx_hash), None):
\* the index of the first match, 0 for None
FindTxOrLatest(tx_hash) ==
    LET hits == {i \in 1..Len(bridge_history) : bridge_history[i].tx_hash = tx_hash}
    IN  IF hits = {} THEN Len(bridge_history)
        ELSE CHOOSE i \in hits : \A j \in hits : i <= j
FindTx(tx_hash) ==
    LET hits == {i \in 1..Len(bridge_history) : bridge_history[i].tx_hash = tx_hash}
    IN  IF hits = {} THEN 0 ELSE CHOOSE i \in hits : \A j \in hits : i <= j

\* "if current_time >= tx.estimated_arrival:"
ArrivedStrictlyAfter(current_time, tx) == current_time > tx.estimated_arrival
Arrived(current_time, tx) == current_time >= tx.estimated_arrival

\* int((elapsed / total_time) * 100); the source divides floats, the model
\* integers
ProgressOfRemaining(current_time, tx) ==
    ((tx.estimated_arrival - current_time) * 100) \div (tx.estimated_arrival - tx.timestamp)
Progress(current_time, tx) ==
    ((current_time - tx.timestamp) * 100) \div (tx.estimated_arrival - tx.timestamp)

\* the dict track_bridge_status returns at loop time current_time
track_bridge_status(tx_hash, current_time) ==
    IF FindTx(tx_hash) = 0
    THEN [error |-> "Transaction not found", tx_hash |-> tx_hash]
    ELSE LET tx == bridge_history[FindTx(tx_hash)]
         IN  [tx_hash |-> tx_hash,
              status |-> IF Arrived(current_time, tx) THEN "completed"
                         ELSE "in_progress",
              progress |-> IF Arrived(current_time, tx) THEN 100
                           ELSE Progress(current_time, tx),
              from_chain |-> tx.from_chain,
              to_chain |-> tx.to_chain,
              amount |-> tx.amount,
              timestamp |-> tx.timestamp,
              estimated_arrival |-> tx.estimated_arrival,
              time_remaining_seconds |->
                 Max2(0, tx.estimated_arrival - current_time)]

BridgeInit ==
    /\ loop_time = 0
    /\ bridge_history = <<>>
    /\ tracked = <<>>
    /\ tracked_before = <<>>
    /\ pending = <<>>
    /\ dispatched = <<>>

LoopTick ==
    /\ \E t \in LoopReadings : t > loop_time /\ loop_time' = t
    /\ UNCHANGED <<bridge_history, tracked, tracked_before, pending, dispatched,
                   feeVars, escrowVars, queryVars>>

\* "self.bridge_history.append(transaction)"
ReplaceHistory(history, transaction) == <<transaction>>
OverwriteLast(history, transaction) ==
    IF history = <<>> THEN <<transaction>>
    ELSE [history EXCEPT ![Len(history)] = transaction]
AppendTransaction(history, transaction) == Append(history, transaction)

\* the bridge_usdc calls made so far, run or still to run
Dispatches == Len(bridge_history) + Len(pending)

\* a bridge_usdc call awaited on its own: it runs at once, to its return
BridgeUsdc ==
    /\ Dispatches < MaxHistory
    /\ \E pair \in BridgePairs, amount \in BridgeAmounts :
         LET transaction == bridge_usdc(pair[1], pair[2], amount, loop_time)
         IN  /\ bridge_history' = AppendTransaction(bridge_history, transaction)
             /\ dispatched' = Append(dispatched, transaction)
    /\ UNCHANGED <<loop_time, tracked, tracked_before, pending,
                   feeVars, escrowVars, queryVars>>

\* a bridge_usdc call handed to the event loop together with others
\* (asyncio.gather, asyncio.create_task): it runs later
GatherBridgeUsdc ==
    /\ Dispatches < MaxHistory
    /\ \E pair \in BridgePairs, amount \in BridgeAmounts :
         pending' = Append(pending, [from_chain |-> pair[1], to_chain |-> pair[2],
                                     amount |-> amount])
    /\ UNCHANGED <<loop_time, bridge_history, tracked, tracked_before, dispatched,
                   feeVars, escrowVars, queryVars>>

\* the sequence without its i-th element
Without(seq, i) == SubSeq(seq, 1, i - 1) \o SubSeq(seq, i + 1, Len(seq))

\* the event loop runs one of the gathered calls: bridge_usdc awaits
\* nothing, so the call runs from its first line to its return
RunBridgeUsdc ==
    /\ \E i \in 1..Len(pending) :
         LET transaction == bridge_usdc(pending[i].from_chain, pending[i].to_chain,
                                        pending[i].amount, loop_time)
         IN  /\ bridge_history' = AppendTransaction(bridge_history, transaction)
             /\ dispatched' = Append(dispatched, transaction)
             /\ pending' = Without(pending, i)
    /\ UNCHANGED <<loop_time, tracked, tracked_before,
                   feeVars, escrowVars, queryVars>>

\* the hashes a caller passes: those bridge_usdc returned, and another
TxHashArgs ==
    {bridge_history[i].tx_hash : i \in 1..Len(bridge_history)} \cup {UnknownTxHash}

\* a track_bridge_status call; `at` is the loop time it ran at
TrackBridgeStatus ==
    /\ \E tx_hash \in TxHashArgs :
         tracked' = <<[at |-> loop_time,
                       result |-> track_bridge_status(tx_hash, loop_time)]>>
    /\ tracked_before' = tracked
    /\ UNCHANGED <<loop_time, bridge_history, pending, dispatched,
                   feeVars, escrowVars, queryVars>>

(***************************************************************************)
(* The skill's queries: get_bridge_history, find_optimal_route,            *)
(* compare_routes, estimate_total_cost, check_balance, check_all_balances  *)
(*                                                                         *)
(* reply is <<>> before any query, then one record naming the operation    *)
(* and holding either the result it returned or the exception it raised.   *)
(***************************************************************************)

\* the members of the enum Chain in definition order ("for chain in Chain")
ChainOrder == <<ARBITRUM_SEPOLIA, BASE_SEPOLIA, OPTIMISM_SEPOLIA, POLYGON_AMOY>>

\* Python's seq[start:]
SliceFrom(seq, start) ==
    LET n == Len(seq)
        first == IF start < 0 THEN Max2(0, n + start) ELSE Min2(start, n)
    IN  SubSeq(seq, first + 1, n)

\* Python's reversed(seq)
Reversed(seq) == [i \in 1..Len(seq) |-> seq[Len(seq) + 1 - i]]

\* "recent = self.bridge_history[-limit:]"
Recent(history, limit) == SliceFrom(history, 0 - limit)

\* the list get_bridge_history(limit) returns
GetBridgeHistoryDerived(limit) ==
    LET recent == Reversed(Recent(bridge_history, limit))
    IN  [i \in 1..Len(recent) |->
            [tx_hash |-> recent[i].tx_hash,
             from_chain |-> recent[i].from_chain,
             to_chain |-> recent[i].to_chain,
             amount |-> recent[i].amount,
             status |-> track_bridge_status(recent[i].tx_hash, loop_time).status,
             timestamp |-> recent[i].timestamp]]
get_bridge_history(limit) ==
    LET recent == Reversed(Recent(bridge_history, limit))
    IN  [i \in 1..Len(recent) |->
            [tx_hash |-> recent[i].tx_hash,
             from_chain |-> recent[i].from_chain,
             to_chain |-> recent[i].to_chain,
             amount |-> recent[i].amount,
             status |-> recent[i].status,
             timestamp |-> recent[i].timestamp]]

\* "routes.sort(key=lambda r: r.total_cost_usd)": list.sort is stable, so a
\* route goes behind the routes that cost the same and came before it
InsertByCost(sorted, route) ==
    LET k == Cardinality({i \in 1..Len(sorted) :
                            sorted[i].total_cost_usd <= route.total_cost_usd})
    IN  SubSeq(sorted, 1, k) \o <<route>> \o SubSeq(sorted, k + 1, Len(sorted))

RECURSIVE SortByCost(_)
SortByCost(routes) ==
    IF routes = <<>> THEN <<>>
    ELSE InsertByCost(SortByCost(SubSeq(routes, 1, Len(routes) - 1)),
                      routes[Len(routes)])

\* the list compare_routes returns
compare_routes(from_chain, amount, target_chains) ==
    LET targets == SelectSeq(target_chains, LAMBDA to_chain : to_chain # from_chain)
        routes == [i \in 1..Len(targets) |->
                      find_optimal_route(from_chain, targets[i], amount)]
    IN  SortByCost(routes)

\* estimate_total_cost counts in 1/CostScale USD: a route's costs are in
\* 1/1000 USD, the escrow fee percentage is in twentieths of a percent
CostScale == 20 * 100
RouteCostScale == 1000

\* base_fee_percent after the reputation discount, in twentieths of a percent
base_fee_percent(worker_reputation) ==
    IF worker_reputation >= 800 THEN 18
    ELSE IF worker_reputation >= 500 THEN 19
    ELSE 20

\* "costs['percentage_of_amount'] = (costs['total_cost'] / amount) * 100"
\* divides by amount
estimate_total_cost_raises(amount) == amount = 0

\* the dict estimate_total_cost returns; percentage_of_amount is kept as
\* the fraction num/den
estimate_total_cost(from_chain, to_chain, amount, include_escrow_fee, worker_reputation) ==
    LET route == find_optimal_route(from_chain, to_chain, amount)
        in_cost(usd) == usd * (CostScale \div RouteCostScale)
        escrow_fee == amount * base_fee_percent(worker_reputation)
        total_cost == IF include_escrow_fee
                      THEN in_cost(route.total_cost_usd) + escrow_fee
                      ELSE in_cost(route.total_cost_usd)
        costs == [bridge_gas_cost |-> in_cost(route.estimated_gas_cost_usd),
                  bridge_fee |-> in_cost(route.bridge_fee_usd),
                  bridge_total |-> in_cost(route.total_cost_usd),
                  total_cost |-> total_cost,
                  percentage_of_amount |-> [num |-> total_cost * 100,
                                            den |-> amount * CostScale]]
    IN  IF include_escrow_fee
        THEN [key \in DOMAIN costs \cup {"escrow_fee"} |->
                 IF key = "escrow_fee" THEN escrow_fee ELSE costs[key]]
        ELSE costs

\* The arguments tried.
MaxTargets == 2
TargetLists == UNION {[1..n -> Chain] : n \in 0..MaxTargets}
QueryAmounts == {-100, 0, 100, 1000}
QueryReputations == {0, 500, 800}
Limits == -1..(MaxHistory + 1)

\* what a query returned, and what it raised
Returns(op, result) == <<[op |-> op, result |-> result]>>
Raises(op, exception) == <<[op |-> op, raised |-> exception]>>

\* a get_bridge_history call; n is the length of the history it read and
\* `at` the loop time it ran at
GetBridgeHistory ==
    /\ \E limit \in Limits :
         reply' = <<[op |-> "get_bridge_history", limit |-> limit,
                     n |-> Len(bridge_history), at |-> loop_time,
                     result |-> get_bridge_history(limit)]>>
    /\ UNCHANGED <<chains, query, bridgeVars, feeVars, escrowVars>>

FindOptimalRoute ==
    /\ reply' = Returns("find_optimal_route",
                        find_optimal_route(query.from_chain, query.to_chain,
                                           query.amount))
    /\ UNCHANGED <<chains, query, bridgeVars, feeVars, escrowVars>>

CompareRoutes ==
    /\ reply' = Returns("compare_routes",
                        compare_routes(query.from_chain, query.amount,
                                       query.target_chains))
    /\ UNCHANGED <<chains, query, bridgeVars, feeVars, escrowVars>>

EstimateTotalCost ==
    /\ reply' = IF estimate_total_cost_raises(query.amount)
                THEN Raises("estimate_total_cost", "ZeroDivisionError")
                ELSE Returns("estimate_total_cost",
                             estimate_total_cost(query.from_chain, query.to_chain,
                                                 query.amount,
                                                 query.include_escrow_fee,
                                                 query.worker_reputation))
    /\ UNCHANGED <<chains, query, bridgeVars, feeVars, escrowVars>>

\* "usdc_balance": "100.50", in cents
UsdcBalanceCents == 10050

\* "config = self.chains[chain]" raises KeyError when the dict has no entry
\* for the chain
check_balance_raises(chain) == chain \notin chains

\* the dict check_balance returns
check_balance(chain) ==
    [chain |-> chain, usdc_balance |-> UsdcBalanceCents, timestamp |-> loop_time]

RECURSIVE Sum(_)
Sum(seq) == IF seq = <<>> THEN 0 ELSE seq[1] + Sum(Tail(seq))

\* "balances = await asyncio.gather(*tasks)": gather is called without
\* return_exceptions, so the first exception one of the check_balance
\* calls raises is raised from the await and the other results are dropped
gather_raises == \E i \in 1..Len(ChainOrder) : check_balance_raises(ChainOrder[i])

\* the dict check_all_balances returns when no check_balance call raised
check_all_balances ==
    LET balances == [i \in 1..Len(ChainOrder) |-> check_balance(ChainOrder[i])]
    IN  [total_usdc |-> Sum([i \in 1..Len(balances) |-> balances[i].usdc_balance]),
         balances |-> balances,
         chains_with_balance |->
            Cardinality({i \in 1..Len(balances) : balances[i].usdc_balance > 0})]

CheckBalance ==
    /\ \E chain \in Chain :
         reply' = IF check_balance_raises(chain)
                  THEN Raises("check_balance", "KeyError")
                  ELSE Returns("check_balance", check_balance(chain))
    /\ UNCHANGED <<chains, query, bridgeVars, feeVars, escrowVars>>

CheckAllBalances ==
    /\ reply' = IF gather_raises
                THEN Raises("check_all_balances", "KeyError")
                ELSE Returns("check_all_balances", check_all_balances)
    /\ UNCHANGED <<chains, query, bridgeVars, feeVars, escrowVars>>

\* the caller takes a chain out of the skill's public dict self.chains
\* (del skill.chains[chain]); after that a balance check of the chain fails
ForgetChain ==
    /\ \E chain \in chains : chains' = chains \ {chain}
    /\ UNCHANGED <<query, reply, bridgeVars, feeVars, escrowVars>>

(***************************************************************************)
(* Specifications                                                          *)
(***************************************************************************)
\* SpecFee: one call of _calculate_fee, or of create_escrow's pricing of
\* the same arguments (where the reputation is _get_worker_reputation's and
\* is_cross_chain comes from worker_chain)
FeeInit ==
    /\ fee_args \in [amount: FeeAmounts, complexity: FeeComplexities,
                     worker_reputation: FeeReputations, is_cross_chain: BOOLEAN,
                     worker_chain: WorkerChains]
    /\ fee_result = <<>>

CalculateFee ==
    /\ fee_result = <<>>
    /\ fee_result' = <<[op |-> "_calculate_fee",
                        fee |-> calculate_fee(fee_args.amount, fee_args.complexity,
                                              fee_args.worker_reputation,
                                              fee_args.is_cross_chain)]>>
    /\ UNCHANGED <<fee_args, escrowVars, bridgeVars, queryVars>>

CreateEscrowFee ==
    /\ fee_result = <<>>
    /\ ~create_escrow_raises(fee_args.amount)
    /\ fee_result' = <<[op |-> "create_escrow",
                        fee |-> create_escrow(fee_args.amount, fee_args.complexity,
                                              fee_args.worker_chain, wall).fee]>>
    /\ UNCHANGED <<fee_args, escrowVars, bridgeVars, queryVars>>

FeeIdle ==
    /\ fee_args = [amount |-> 1, complexity |-> 1, worker_reputation |-> 0,
                   is_cross_chain |-> FALSE, worker_chain |-> None]
    /\ fee_result = <<>>

\* the skill as __init__ leaves it, and no query made
QueryInit ==
    /\ chains = Chain
    /\ reply = <<>>

\* one set of arguments, for the specifications that are not about them
QueryIdle ==
    query = [from_chain |-> ARBITRUM_SEPOLIA, to_chain |-> BASE_SEPOLIA,
             amount |-> 100,
             target_chains |-> <<OPTIMISM_SEPOLIA, BASE_SEPOLIA>>,
             include_escrow_fee |-> TRUE, worker_reputation |-> 0]

\* any arguments
QueryArgs ==
    query \in [from_chain : Chain, to_chain : Chain, amount : QueryAmounts,
               target_chains : TargetLists, include_escrow_fee : BOOLEAN,
               worker_reputation : QueryReputations]

InitFee == FeeInit /\ EscrowInit /\ BridgeInit /\ QueryInit /\ QueryIdle
NextFee ==
    \/ CalculateFee
    \/ CreateEscrowFee
SpecFee == InitFee /\ [][NextFee]_vars

InitBridge == FeeIdle /\ EscrowInit /\ BridgeInit /\ QueryInit /\ QueryIdle
NextBridge ==
    \/ BridgeUsdc
    \/ TrackBridgeStatus
    \/ LoopTick
SpecBridge == InitBridge /\ [][NextBridge]_vars

\* SpecGather: bridge_usdc calls started together and run by the event
\* loop, in any order
NextGather ==
    \/ GatherBridgeUsdc
    \/ RunBridgeUsdc
    \/ LoopTick
SpecGather == InitBridge /\ [][NextGather]_vars

\* SpecHistory: every operation of the skill that reads or writes
\* bridge_history, or is said not to touch it, in any order.  The clock
\* stands still here: what these operations do to the history does not
\* depend on it.
NextHistory ==
    \/ BridgeUsdc
    \/ TrackBridgeStatus
    \/ GetBridgeHistory
    \/ FindOptimalRoute
    \/ CompareRoutes
    \/ EstimateTotalCost
SpecHistory == InitBridge /\ [][NextHistory]_vars

\* SpecRecent: dispatches and listings of the history as time passes
NextRecent ==
    \/ BridgeUsdc
    \/ GetBridgeHistory
    \/ LoopTick
SpecRecent == InitBridge /\ [][NextRecent]_vars

\* SpecQueries: the route and cost queries as pure functions of their
\* arguments
InitQueries == FeeIdle /\ EscrowInit /\ BridgeInit /\ QueryInit /\ QueryArgs
NextQueries ==
    \/ FindOptimalRoute
    \/ CompareRoutes
    \/ EstimateTotalCost
SpecQueries == InitQueries /\ [][NextQueries]_vars

\* SpecBalances: the balance checks, on a skill whose chain table the
\* caller may have cut down
NextBalances ==
    \/ CheckBalance
    \/ CheckAllBalances
    \/ ForgetChain
    \/ LoopTick
SpecBalances == InitBridge /\ [][NextBalances]_vars

Init == FeeIdle /\ EscrowInit /\ BridgeInit /\ QueryInit /\ QueryIdle
Next ==
    \/ \E c \in CallSlots : SubmitWork(c)
    \/ \E c \in CallSlots : VerifyBegin(c)
    \/ \E c \in CallSlots : VerifyEnd(c)
    \/ \E c \in CallSlots : CreateEscrow(c)
    \/ \E c \in CallSlots : FlowCreate(c)
    \/ \E c \in CallSlots : FlowSubmit(c)
    \/ \E c \in CallSlots : FlowVerifyBegin(c)
    \/ \E c \in CallSlots : FlowVerifyEnd(c)
    \/ \E c \in CallSlots : FlowRelease(c)
    \/ WallTick
Spec == Init /\ [][Next]_vars

(***************************************************************************)
(* The state of an escrow, as the returned records tell it                 *)
(***************************************************************************)

\* the state a returned record reports its escrow to be in
StateAfter(r) ==
    CASE r.kind = "escrow" -> "CREATED"
      [] r.kind = "submission" -> "WORK_SUBMITTED"
      [] r.kind = "verification" ->
            IF r.passed THEN "VERIFIED_PASS" ELSE "VERIFIED_FAIL"
      [] r.kind = "payment" -> "RELEASED"

\* the positions below n of the records about escrow id
Positions(id, n) == {j \in 1..(n - 1) : returned[j].escrow_id = id}

Last(S) == CHOOSE j \in S : \A k \in S : k <= j

\* the state escrow id is in before the n-th record is returned
StateBefore(id, n) ==
    IF Positions(id, n) = {} THEN "NONE"
    ELSE StateAfter(returned[Last(Positions(id, n))])

\* the state of the n-th record's escrow just before that record
Before(n) == StateBefore(returned[n].escrow_id, n)

Edges == {<<"NONE", "CREATED">>,
          <<"CREATED", "WORK_SUBMITTED">>,
          <<"WORK_SUBMITTED", "VERIFIED_PASS">>,
          <<"WORK_SUBMITTED", "VERIFIED_FAIL">>,
          <<"VERIFIED_PASS", "RELEASED">>}

Returned(kind) == {i \in 1..Len(returned) : returned[i].kind = kind}

(***************************************************************************)
(* Claims                                                                  *)
(***************************************************************************)

\* C1: for every amount > 0, complexity LOW, MEDIUM or HIGH, any reputation
\* and either value of cross_chain, the fee _calculate_fee returns, and the
\* fee create_escrow prices an escrow with, lies between 0.5% and 3% of
\* the amount.
C1_FeeWithinBounds ==
    (/\ fee_result # <<>>
     /\ fee_args.amount > 0
     /\ fee_args.complexity \in {0, 1, 2})
    => /\ fee_result[1].fee >= fee_args.amount * (FeeScale \div 200)
       /\ fee_result[1].fee <= fee_args.amount * ((3 * FeeScale) \div 100)

\* C1 witness: a fee was returned for a positive amount whose unclamped fee
\* is below 0.5% of the amount, so that the clamp decided it.
C1_Witness ==
    /\ fee_result # <<>>
    /\ fee_result[1].op = "_calculate_fee"
    /\ fee_args.amount > 0
    /\ fee_args.complexity = 0
    /\ raw_fee(fee_args.amount, fee_args.complexity, fee_args.worker_reputation,
               fee_args.is_cross_chain) < min_fee(fee_args.amount)
    /\ fee_result[1].fee = min_fee(fee_args.amount)

\* C2: a payment record (status released) is returned for an escrow only
\* after a verification record with passed = true was returned for that
\* same escrow.
C2_ReleasedOnlyAfterPass ==
    \A i \in Returned("payment") :
        \E j \in Returned("verification") :
            /\ j < i
            /\ returned[j].escrow_id = returned[i].escrow_id
            /\ returned[j].passed

\* C2 witness: a payment was released for an escrow for which a failed
\* verification was returned too.
C2_Witness ==
    \E i \in Returned("payment"), j \in Returned("verification") :
        /\ returned[j].escrow_id = returned[i].escrow_id
        /\ ~returned[j].passed

\* C3 (as claimed): every returned record moves its escrow along an edge of
\* the state machine; in particular nothing follows RELEASED or
\* VERIFIED_FAIL.
C3_TransitionsFollowEdges ==
    \A i \in 1..Len(returned) : <<Before(i), StateAfter(returned[i])>> \in Edges

\* C4 (as claimed): a release happens only for an escrow in VERIFIED_PASS;
\* in any other state it fails and no payment record is produced.
C4_ReleaseRequiresVerifiedPass ==
    \A i \in Returned("payment") : Before(i) = "VERIFIED_PASS"

\* C5 (as claimed): funds are released exactly once per escrow: no escrow
\* has two releases performed for it.
C5_ReleasedOnce ==
    \A i, j \in Returned("payment") :
        returned[i].escrow_id = returned[j].escrow_id => i = j

C7_SubmitOnlyFromCreated ==
    \A i \in Returned("submission") : Before(i) = "CREATED"

\* the keys of a flow's results that are set
IsSet(c, key) == calls[c].flow_results[key] # <<>>
FlowKeys(c) == {key \in {"escrow", "submission", "verification", "payment"} :
                  IsSet(c, key)}
Flows == {c \in CallSlots : calls[c].op = "execute_full_flow"}

\* C8: execute_full_flow does create, submit, verify, release in this
\* order, one after the other; when the verifier answers passed = false it
\* ends with no payment record and its summary reports FAILED.
C8_FlowInOrder ==
    \A c \in Flows :
        /\ calls[c].pc = "l440" => FlowKeys(c) = {"escrow"}
        /\ calls[c].pc \in {"l448", "l351"} => FlowKeys(c) = {"escrow", "submission"}
        /\ calls[c].pc = "l458" =>
              /\ FlowKeys(c) = {"escrow", "submission", "verification"}
              /\ calls[c].flow_results.verification[1].passed
        /\ calls[c].pc = "done" =>
              /\ {"escrow", "submission", "verification"} \subseteq FlowKeys(c)
              /\ IF calls[c].flow_results.verification[1].passed
                 THEN IsSet(c, "payment") /\ calls[c].flow_results.status = "COMPLETE"
                 ELSE ~IsSet(c, "payment") /\ calls[c].flow_results.status = "FAILED"

\* C8 witness: a flow has returned after a failed verification.
C8_Witness ==
    \E c \in Flows :
        /\ calls[c].pc = "done"
        /\ ~calls[c].flow_results.verification[1].passed

\* the state escrow id is in now
StateNow(id) == StateBefore(id, Len(returned) + 1)

\* C9 (as claimed): verifications of one escrow are serialized: no two
\* calls are inside verify_work_with_ai for the same submitted escrow at
\* once, and an escrow gets at most one verdict.
C9_VerifySerialized ==
    /\ \A c, d \in CallSlots :
          (/\ calls[c].pc = "l351"
           /\ calls[d].pc = "l351"
           /\ calls[c].escrow_id = calls[d].escrow_id
           /\ StateNow(calls[c].escrow_id) = "WORK_SUBMITTED") => c = d
    /\ \A i, j \in Returned("verification") :
          (Before(i) = "WORK_SUBMITTED"
           /\ returned[i].escrow_id = returned[j].escrow_id) => i = j

\* the dict of the last track_bridge_status call, if it found the
\* transaction
Found == tracked # <<>> /\ "error" \notin DOMAIN tracked[1].result

\* C10: track_bridge_status finds every dispatched transaction; asked at
\* the instant of the dispatch it answers pending or in_progress with
\* progress < 100; asked at or after estimated_arrival it answers
\* completed, progress 100 and no time remaining.
C10_StatusAtDispatchAndArrival ==
    /\ (tracked # <<>> /\ tracked[1].result.tx_hash # UnknownTxHash) => Found
    /\ Found =>
         LET at == tracked[1].at
             r == tracked[1].result
         IN  /\ at = r.timestamp =>
                   r.status \in {"pending", "in_progress"} /\ r.progress < 100
             /\ at >= r.estimated_arrival =>
                   /\ r.status = "completed"
                   /\ r.progress = 100
                   /\ r.time_remaining_seconds = 0

\* C10 witness: a transaction was tracked at the very second of its
\* estimated arrival.
C10_Witness ==
    /\ Found
    /\ tracked[1].at = tracked[1].result.estimated_arrival
    /\ tracked[1].result.status = "completed"

\* both of the last two track_bridge_status calls found a transaction, and
\* the same one
TrackedTwice ==
    /\ Found
    /\ tracked_before # <<>>
    /\ "error" \notin DOMAIN tracked_before[1].result
    /\ tracked_before[1].result.tx_hash = tracked[1].result.tx_hash

\* C11: of two track_bridge_status answers about one transaction, the later
\* one reports at least the progress of the earlier one, and after an
\* answer of completed no later answer is in_progress or pending.
C11_ProgressNeverGoesBack ==
    TrackedTwice =>
        LET r1 == tracked_before[1].result
            r2 == tracked[1].result
        IN  /\ tracked_before[1].at <= tracked[1].at
            /\ r1.progress <= r2.progress
            /\ r1.status = "completed" => r2.status = "completed"

\* C11 witness: a transaction was tracked part of the way, and tracked
\* again after it arrived.
C11_Witness ==
    /\ TrackedTwice
    /\ tracked_before[1].result.status = "in_progress"
    /\ tracked_before[1].result.progress > 0
    /\ tracked_before[1].at < tracked[1].at
    /\ tracked[1].result.status = "completed"

\* the hashes of the transactions in the history
HistoryHashes == {bridge_history[i].tx_hash : i \in 1..Len(bridge_history)}

\* C12 (as amended): asked about a hash that is not in the history,
\* track_bridge_status returns the dict {"error": "Transaction not found",
\* "tx_hash": hash}, which has no status and no progress, and the call
\* leaves the history as it was.
C12_UnknownHashGetsErrorDict ==
    /\ [](tracked # <<>> /\ tracked[1].result.tx_hash \notin HistoryHashes =>
            tracked[1].result = [error |-> "Transaction not found",
                                 tx_hash |-> tracked[1].result.tx_hash])
    /\ [][(tracked' # tracked \/ tracked_before' # tracked_before) =>
            bridge_history' = bridge_history]_vars

\* C12 witness: with a transaction in the history, a call about another
\* hash was answered.
C12_Witness ==
    /\ bridge_history # <<>>
    /\ tracked # <<>>
    /\ tracked[1].result.tx_hash \notin HistoryHashes

\* C12 (as claimed): a track_bridge_status call about a hash that is not in
\* the history fails with an exception, so every dict the operation
\* returns is the status of a transaction it found.
C12_UnknownHashRaises ==
    tracked # <<>> => {"status", "progress"} \subseteq DOMAIN tracked[1].result

\* C13 (as claimed): no two transactions in the history have the same
\* tx_hash, whatever was dispatched and whenever.
C13_HashesDistinct ==
    \A i, j \in 1..Len(bridge_history) :
        bridge_history[i].tx_hash = bridge_history[j].tx_hash => i = j

\* C14: bridge_history is append-only.  A step in which bridge_usdc
\* returns adds exactly one transaction at the end and leaves the earlier
\* ones and their order as they were; every other step
\* (track_bridge_status, get_bridge_history, find_optimal_route,
\* compare_routes, estimate_total_cost) leaves the history as it was.
C14_HistoryAppendOnly ==
    [][/\ dispatched' # dispatched =>
            /\ Len(bridge_history') = Len(bridge_history) + 1
            /\ SubSeq(bridge_history', 1, Len(bridge_history)) = bridge_history
       /\ dispatched' = dispatched => bridge_history' = bridge_history]_vars

\* C14 witness: two different transactions were dispatched, and the
\* history was tracked and listed.
C14_Witness ==
    /\ Len(bridge_history) >= 2
    /\ bridge_history[1] # bridge_history[2]
    /\ tracked # <<>>
    /\ reply # <<>>
    /\ reply[1].op = "get_bridge_history"

\* how many times the record occurs in the sequence
Count(seq, record) == Cardinality({i \in 1..Len(seq) : seq[i] = record})

\* C15: whatever bridge_usdc calls were started together, in whatever
\* order the event loop runs them, no append is lost: the history holds
\* one transaction per call that returned, and holds every returned
\* transaction as many times as it was returned; when all N calls are over
\* that is N transactions.
C15_NoLostDispatch ==
    /\ Len(bridge_history) = Len(dispatched)
    /\ \A i \in 1..Len(dispatched) :
          Count(bridge_history, dispatched[i]) = Count(dispatched, dispatched[i])

\* C15 witness: two different calls were started together and both have
\* run, at one clock reading.
C15_Witness ==
    /\ pending = <<>>
    /\ Len(dispatched) >= 2
    /\ dispatched[1].from_chain # dispatched[2].from_chain
    /\ dispatched[1].timestamp = dispatched[2].timestamp

\* C16 (as claimed): get_bridge_history(limit) with limit >= 0, called on a
\* history of n transactions, returns exactly min(limit, n) of them, the
\* last dispatched ones, newest first; with limit 0 it returns none.
C16_RecentReturnsMinLimitN ==
    (reply # <<>> /\ reply[1].op = "get_bridge_history" /\ reply[1].limit >= 0) =>
        LET n == reply[1].n
            result == reply[1].result
        IN  /\ Len(result) = Min2(reply[1].limit, n)
            /\ \A i \in 1..Len(result) :
                  /\ n + 1 - i >= 1
                  /\ result[i].tx_hash = bridge_history[n + 1 - i].tx_hash
                  /\ result[i].to_chain = bridge_history[n + 1 - i].to_chain

\* C17 (as claimed): find_optimal_route never returns a route from a chain
\* to itself: asked for one, for whatever amount (here a positive one), it
\* fails.
C17_NoRouteToSameChain ==
    (reply # <<>> /\ reply[1].op = "find_optimal_route" /\ query.amount > 0) =>
        /\ query.from_chain # query.to_chain
        /\ reply[1].result.from_chain # reply[1].result.to_chain

\* C18 (as claimed): the list compare_routes returns (here for a positive
\* amount) is in ascending order of total cost, and of two neighbours of
\* equal cost the first has the shorter or the same estimated time.
C18_SortedByCostThenTime ==
    (reply # <<>> /\ reply[1].op = "compare_routes" /\ query.amount > 0) =>
        LET routes == reply[1].result
        IN  \A i \in 1..(Len(routes) - 1) :
               /\ routes[i].total_cost_usd <= routes[i + 1].total_cost_usd
               /\ routes[i].total_cost_usd = routes[i + 1].total_cost_usd =>
                     routes[i].estimated_time_seconds
                        <= routes[i + 1].estimated_time_seconds

\* C19 (as claimed): check_all_balances returns an aggregate even when the
\* balance check of one chain fails: it never ends in the failure of that
\* one check, and what it returns has an entry for every chain.
C19_PartialFailureKept ==
    (reply # <<>> /\ reply[1].op = "check_all_balances") =>
        /\ "result" \in DOMAIN reply[1]
        /\ Len(reply[1].result.balances) = Cardinality(Chain)

\* C20 (as claimed): _calculate_fee returns no fee for an amount that is
\* zero or negative: the call fails.
C20_NoFeeForNonPositiveAmount ==
    (fee_result # <<>> /\ fee_result[1].op = "_calculate_fee") => fee_args.amount > 0

\* the call priced the scenario: amount 100, complexity MEDIUM (1),
\* reputation 750, worker on the client's own chain
PricedScenario ==
    /\ fee_result # <<>>
    /\ fee_args.amount = 100
    /\ fee_args.complexity = 1
    /\ \/ /\ fee_result[1].op = "_calculate_fee"
          /\ fee_args.worker_reputation = 750
          /\ ~fee_args.is_cross_chain
       \/ /\ fee_result[1].op = "create_escrow"
          /\ ~is_cross_chain(fee_args.worker_chain)

\* C21 (as amended): for amount 100, complexity MEDIUM, reputation 750 and
\* a same-chain escrow, _calculate_fee returns 0.95 and create_escrow
\* returns an escrow whose fee is 0.95 (1% of 100, times 1.0, no volume
\* discount below 1000, times 0.95).
C21_ScenarioFeeIs095 ==
    PricedScenario => fee_result[1].fee = (95 * FeeScale) \div 100

\* C21 witness: create_escrow priced the scenario.
C21_Witness ==
    /\ PricedScenario
    /\ fee_result[1].op = "create_escrow"
    /\ fee_args.worker_chain = None

\* C21 (as claimed): in that scenario the fee is 0.855.
C21_ScenarioFeeIs0855 ==
    PricedScenario => fee_result[1].fee = (855 * FeeScale) \div 1000

\* _calculate_fee was called for a HIGH (2) task of a positive amount,
\* reputation 0, same chain
PricedHigh ==
    /\ fee_result # <<>>
    /\ fee_result[1].op = "_calculate_fee"
    /\ fee_args.amount > 0
    /\ fee_args.complexity = 2
    /\ fee_args.worker_reputation = 0
    /\ ~fee_args.is_cross_chain

\* C22: for every positive amount the fee _calculate_fee returns for a
\* HIGH task (reputation 0, same chain) is at least the fee it returns for a
\* LOW (0) task of the same amount.
C22_HighCostsAtLeastLow ==
    PricedHigh => fee_result[1].fee >= calculate_fee(fee_args.amount, 0, 0, FALSE)

\* C22 witness: a HIGH task in the top volume tier was priced, and a LOW
\* one of that amount costs strictly less.
C22_Witness ==
    /\ PricedHigh
    /\ fee_args.amount >= 50000
    /\ fee_result[1].fee > calculate_fee(fee_args.amount, 0, 0, FALSE)

\* C24 (as claimed): no two escrows create_escrow returned have the same
\* escrow_id, at whatever clock readings they were created.
C24_EscrowIdsUnique ==
    \A i, j \in Returned("escrow") :
        returned[i].escrow_id = returned[j].escrow_id => i = j

\* C25: every escrow create_escrow returns is priced as cross-chain, and
\* marked so, exactly when a worker chain other than the client's own was
\* given; exactly then it carries bridge_info, whose route is
\* find_optimal_route(client's chain, worker chain, amount); its status is
\* "created"; and no transaction is added to the bridge history.
C25_CrossChainEscrow ==
    /\ \A i \in Returned("escrow") :
          LET r == returned[i]
              cross == r.worker_chain # current_chain
          IN  /\ r.is_cross_chain = cross
              /\ r.fee = calculate_fee(r.amount, 1, get_worker_reputation, cross)
              /\ (r.bridge_info # <<>>) = cross
              /\ cross =>
                    /\ r.bridge_info[1].route =
                          find_optimal_route(current_chain, r.worker_chain, r.amount)
                    /\ r.bridge_info[1].bridge_cost =
                          r.bridge_info[1].route.total_cost_usd
              /\ r.status = "created"
              /\ StateAfter(r) = "CREATED"
    /\ bridge_history = <<>>
    /\ dispatched = <<>>

\* C25 witness: a cross-chain escrow and a same-chain escrow were created.
C25_Witness ==
    \E i, j \in Returned("escrow") :
        /\ returned[i].is_cross_chain
        /\ returned[i].bridge_info # <<>>
        /\ ~returned[j].is_cross_chain
        /\ returned[j].bridge_info = <<>>

C27_SnapshotConsistent ==
    Found =>
        LET r == tracked[1].result
        IN  /\ tracked[1].at >= r.timestamp
            /\ 0 <= r.progress /\ r.progress <= 100
            /\ r.time_remaining_seconds >= 0
            /\ (r.status = "completed") = (r.progress = 100)
            /\ (r.progress = 100) = (r.time_remaining_seconds = 0)

\* C27 witness: a transaction was tracked part of the way.
C27_Witness ==
    /\ Found
    /\ tracked[1].at > tracked[1].result.timestamp
    /\ tracked[1].result.time_remaining_seconds > 0
    /\ tracked[1].result.progress > 0

\* get_bridge_history was called and listed something
Listed == reply # <<>> /\ reply[1].op = "get_bridge_history" /\ reply[1].result # <<>>

\* C28: the status stored with a transaction is "pending" from its dispatch
\* on and nothing changes it: every transaction in the history has it, and
\* every entry get_bridge_history returns has it, at whatever time, also
\* when track_bridge_status answers "completed" for that transaction.
C28_StoredStatusStaysPending ==
    /\ \A i \in 1..Len(bridge_history) : bridge_history[i].status = "pending"
    /\ \A i \in 1..Len(dispatched) : dispatched[i].status = "pending"
    /\ Listed =>
          \A k \in 1..Len(reply[1].result) : reply[1].result[k].status = "pending"

\* C28 witness: get_bridge_history listed a transaction at a time at which
\* track_bridge_status answers "completed" for it.
C28_Witness ==
    /\ Listed
    /\ track_bridge_status(reply[1].result[1].tx_hash, reply[1].at).status
          = "completed"
    /\ reply[1].result[1].status = "pending"

=============================================================================
